---- MODULE Spec2Model ----
(***************************************************************************)
(* DataManager: a flat-file storage manager on a byte-addressable EEPROM.  *)
(* The persistent medium is the state: GlobalStats at address 0, the file  *)
(* table behind it, the data region behind that.  Every public operation   *)
(* of DataManager.cpp is one action; the storage port answers every read   *)
(* and write that stays inside the medium with DATA_MANAGER_OK.            *)
(***************************************************************************)
EXTENDS Integers, Sequences, FiniteSets, TLC

VARIABLES
    gs,         \* GlobalStats_t persisted at GLOBAL_STATS_START_ADDRESS
    ft,         \* the file table: slot index -> File_t
    mem,        \* bytes written behind the file table's slots: address -> byte
    fill,       \* the byte every never-written cell of the medium holds
    adds,       \* add_file calls that wrote to the medium since the last init_filesystem
    added,      \* filenames for which add_file returned success since the last init_filesystem
    allocated,  \* sum of length_bytes * entries_to_store over those add_file calls
    callers     \* the add_file call each of two unserialized callers is in

vars == <<gs, ft, mem, fill, adds, added, allocated, callers>>

----------------------------------------------------------------------------
(* Layout macros, DataManager.h *)

PAGES == 500
PAGE_SIZE_BYTES == 64
EEPROM_SIZE_BYTES == 32000
GLOBAL_STATS_START_ADDRESS == 0
GLOBAL_STATS_LENGTH == 8
FILE_TABLE_PAGES == 4
FILE_TABLE_START_ADDRESS == GLOBAL_STATS_LENGTH
FILE_TABLE_LENGTH == (PAGE_SIZE_BYTES * FILE_TABLE_PAGES) - GLOBAL_STATS_LENGTH
STORAGE_START_ADDRESS == FILE_TABLE_LENGTH + GLOBAL_STATS_LENGTH
STORAGE_LENGTH == (PAGES * PAGE_SIZE_BYTES) - (STORAGE_START_ADDRESS)

(* Result codes *)
DATA_MANAGER_OK == 0
FILE_TABLE_FULL == 20
FILE_INVALID_NAME == 21
FILE_ENTRY_LENGTH_MISMATCH == 30
FILE_ENTRY_FULL == 31
FILE_ENTRY_INVALID_INDEX == 32

(* The magic of GlobalStats_t.initialised, 0x695ACC5C, as its four bytes in
   storage order (little endian) *)
INITIALISED == <<92, 204, 90, 105>>

(* Widths of the C types involved *)
UINT8_MOD == 256
UINT16_MOD == 65536
INT_MAX == 2147483647

(* sizeof(File_t): four uint16_t and two uint8_t *)
FILE_SIZE == 10

----------------------------------------------------------------------------
(* Bounds of the model *)

MaxAddCalls == 2
(* truncate_file with a negative count lengthens a file without end; the
   model follows it up to this many written entries *)
MaxWritten == 3

(* Inputs *)
BlankBytes == {255}
Filenames == {1, 249}
(* <<length_bytes, entries_to_store>>; the product of the last two is above
   INT_MAX, and the low 16 bits left of 32799 * 65528 move the allocator from
   STORAGE_START_ADDRESS to FILE_TABLE_START_ADDRESS *)
FileShapes == {<<2, 2>>, <<2, 0>>, <<0, 1>>, <<2, 20000>>, <<50000, 50000>>,
               <<32799, 65528>>}
DataLengths == {0, 2}
DataSeeds == {17, 34}
TruncateCounts == {-2, 0, 1, 5}
EntryIndexes == {-1, 0, 1}

(* What the build can make of an undefined operation (signed overflow,
   division by zero): the value the machine instruction leaves, or a fault
   that ends the call. *)
UbOutcomes == {"value", "trap"}

----------------------------------------------------------------------------
(* C arithmetic *)

U8(x) == x % UINT8_MOD
U16(x) == x % UINT16_MOD

(* int / int, quotient truncated toward zero; d > 0 *)
CDiv(n, d) == IF n >= 0 THEN n \div d ELSE -((-n) \div d)

(* uint16_t * uint16_t is computed in int after integer promotion *)
MulOverflows(a, b) == b # 0 /\ a > INT_MAX \div b

(* a * b - 2^32 for a product in [2^31, 2^32), without leaving 32 bits *)
WrapMul(a, b) ==
    LET h == a * (b \div 2)
        half == (INT_MAX \div 2) + 1
    IN  (((h - half) + (h - half)) + a * (b % 2)) - INT_MAX - 1

----------------------------------------------------------------------------
(* GlobalStats_t and File_t *)

BlankStats(b) ==
    [next_available_address |-> b * 257, space_remaining |-> b * 257,
     initialised |-> <<b, b, b, b>>]

BlankFile(b) ==
    [length_bytes |-> b * 257, file_start_address |-> b * 257,
     file_end_address |-> b * 257, next_available_address |-> b * 257,
     filename |-> b, valid |-> b]

get_max_files == FILE_TABLE_LENGTH \div FILE_SIZE

Slots == 0 .. (get_max_files - 1)

SlotAddress(file_index) == FILE_TABLE_START_ADDRESS + (file_index * FILE_SIZE)

get_storage_size_bytes == STORAGE_LENGTH

(* filename + length_bytes + file_start_address + file_end_address +
   next_available_address, as stored in the uint8_t valid *)
Checksum(file) ==
    U8(file.filename + file.length_bytes + file.file_start_address +
       file.file_end_address + file.next_available_address)

is_valid_file(file) ==
    IF file.valid = 0 THEN FALSE
    ELSE file.valid = Checksum(file)

WithValid(file) == [file EXCEPT !.valid = Checksum(file)]

----------------------------------------------------------------------------
(* Storage port: the EEPROM behind read_from_address and write_to_address *)

(* What the port answers when an access leaves the medium *)
STORAGE_FAILURE == 1

Lo(x) == x % UINT8_MOD
Hi(x) == x \div UINT8_MOD

(* The unions' char data[]: the fields in declaration order, little endian *)
StatsBytes(g) ==
    <<Lo(g.next_available_address), Hi(g.next_available_address),
      Lo(g.space_remaining), Hi(g.space_remaining)>> \o g.initialised

FileBytes(file) ==
    <<Lo(file.length_bytes), Hi(file.length_bytes),
      Lo(file.file_start_address), Hi(file.file_start_address),
      Lo(file.file_end_address), Hi(file.file_end_address),
      Lo(file.next_available_address), Hi(file.next_available_address),
      file.filename, file.valid>>

(* The GlobalStats_t read back from its char data[] *)
StatsOfBytes(b) ==
    [next_available_address |-> b[1] + (b[2] * UINT8_MOD),
     space_remaining |-> b[3] + (b[4] * UINT8_MOD),
     initialised |-> <<b[5], b[6], b[7], b[8]>>]

(* The File_t read back from its char data[] *)
FileOfBytes(b) ==
    [length_bytes |-> b[1] + (b[2] * UINT8_MOD),
     file_start_address |-> b[3] + (b[4] * UINT8_MOD),
     file_end_address |-> b[5] + (b[6] * UINT8_MOD),
     next_available_address |-> b[7] + (b[8] * UINT8_MOD),
     filename |-> b[9],
     valid |-> b[10]]

TableSlotsEnd == FILE_TABLE_START_ADDRESS + ((FILE_TABLE_LENGTH \div FILE_SIZE) * FILE_SIZE)

ReadByte(g, t, m, address) ==
    IF address < GLOBAL_STATS_START_ADDRESS + GLOBAL_STATS_LENGTH
    THEN StatsBytes(g)[(address - GLOBAL_STATS_START_ADDRESS) + 1]
    ELSE IF address < TableSlotsEnd
    THEN FileBytes(t[(address - FILE_TABLE_START_ADDRESS) \div FILE_SIZE])
                  [((address - FILE_TABLE_START_ADDRESS) % FILE_SIZE) + 1]
    ELSE IF address \in DOMAIN m THEN m[address]
    ELSE fill

InMedium(address, length) ==
    address >= 0 /\ length >= 0 /\ address + length <= EEPROM_SIZE_BYTES

(* read_from_address(address, data, length) *)
StorageRead(g, t, m, address, length) ==
    IF InMedium(address, length)
    THEN [status |-> DATA_MANAGER_OK,
          data |-> [i \in 1 .. length |-> ReadByte(g, t, m, address + i - 1)]]
    ELSE [status |-> STORAGE_FAILURE, data |-> <<>>]

(* write_to_address(address, data, length), for the data the record
   operations write: the bytes land wherever the address points, in the
   data region, in the file table or in GlobalStats *)
StorageWrite(g, t, m, address, data) ==
    LET length == Len(data)
        Written(a) == a >= address /\ a < address + length
        ByteAt(a) == IF Written(a) THEN data[(a - address) + 1]
                     ELSE ReadByte(g, t, m, a)
        HitsStats == length > 0
                     /\ address < GLOBAL_STATS_START_ADDRESS + GLOBAL_STATS_LENGTH
        HitsTable == length > 0 /\ address < TableSlotsEnd
                     /\ address + length > FILE_TABLE_START_ADDRESS
    IN  IF InMedium(address, length)
        THEN [status |-> DATA_MANAGER_OK,
              gs |-> IF HitsStats
                     THEN StatsOfBytes([k \in 1 .. GLOBAL_STATS_LENGTH |->
                              ByteAt((GLOBAL_STATS_START_ADDRESS + k) - 1)])
                     ELSE g,
              ft |-> IF HitsTable
                     THEN [i \in Slots |->
                              IF address < SlotAddress(i) + FILE_SIZE
                                 /\ address + length > SlotAddress(i)
                              THEN FileOfBytes([k \in 1 .. FILE_SIZE |->
                                       ByteAt((SlotAddress(i) + k) - 1)])
                              ELSE t[i]]
                     ELSE t,
              mem |-> [a \in (DOMAIN m) \cup
                              {a \in address .. (address + length - 1) :
                                  a >= TableSlotsEnd} |->
                          IF Written(a) THEN data[(a - address) + 1] ELSE m[a]]]
        ELSE [status |-> STORAGE_FAILURE, gs |-> g, ft |-> t, mem |-> m]

----------------------------------------------------------------------------
(* File table scans *)

MatchingSlots(t, filename) ==
    {i \in Slots : is_valid_file(t[i]) /\ t[i].filename = filename}

FirstOf(S) == CHOOSE i \in S : \A j \in S : i <= j

(* The scan answering with the last slot read when no slot matches *)
get_file_by_name_no_miss(t, filename) ==
    LET hits == MatchingSlots(t, filename)
    IN  IF hits = {}
        THEN [status |-> DATA_MANAGER_OK, index |-> get_max_files - 1,
              file |-> t[get_max_files - 1]]
        ELSE [status |-> DATA_MANAGER_OK, index |-> FirstOf(hits), file |-> t[FirstOf(hits)]]

(* get_file_by_name: the first valid slot whose filename matches *)
get_file_by_name(t, filename) ==
    LET hits == MatchingSlots(t, filename)
    IN  IF hits = {}
        THEN [status |-> FILE_INVALID_NAME, index |-> -1, file |-> t[get_max_files - 1]]
        ELSE [status |-> DATA_MANAGER_OK, index |-> FirstOf(hits), file |-> t[FirstOf(hits)]]

(* get_next_available_file_table_address: the first slot failing the
   validity check, or -1 *)
get_next_available_file_table_address(t) ==
    LET free == {i \in Slots : ~is_valid_file(t[i])}
    IN  IF free = {} THEN -1 ELSE SlotAddress(FirstOf(free))

SlotOfAddress(address) == (address - FILE_TABLE_START_ADDRESS) \div FILE_SIZE

(* modify_file: rewrite the first valid slot whose filename matches *)
modify_file(t, filename, file) ==
    LET hits == MatchingSlots(t, filename)
    IN  IF hits = {}
        THEN [status |-> FILE_INVALID_NAME, ft |-> t]
        ELSE [status |-> DATA_MANAGER_OK, ft |-> [t EXCEPT ![FirstOf(hits)] = file]]

(* The values a caller's int may hold when it is handed to total_stored_files *)
CallerValues == {0, 5}

(* total_stored_files: valid_files++ for every slot passing the validity
   check, counted on top of what the caller's variable held *)
total_stored_files(t, valid_files) ==
    [status |-> DATA_MANAGER_OK,
     valid_files |-> valid_files + Cardinality({i \in Slots : is_valid_file(t[i])})]

(* total_remaining_file_table_entries: max_files - valid_files, counted from 0 *)
total_remaining_file_table_entries(t) ==
    [status |-> DATA_MANAGER_OK,
     remaining_files |-> get_max_files - total_stored_files(t, 0).valid_files]

----------------------------------------------------------------------------
(* is_initialised *)

(* if(initialised != INITIALISED) initialised = false; is followed by an
   unconditional initialised = true; *)
is_initialised(g) ==
    LET compared == (IF g.initialised # INITIALISED THEN FALSE ELSE TRUE)
        assigned == TRUE
    IN  [status |-> DATA_MANAGER_OK, initialised |-> assigned]

----------------------------------------------------------------------------
(* init_filesystem *)

(* The FILE_TABLE_PAGES pages of zeros are written from
   FILE_TABLE_START_ADDRESS on, so the last GLOBAL_STATS_LENGTH bytes of
   them land in the data region.  The cells blanked behind the last slot: *)
InitBlankedData ==
    TableSlotsEnd .. (FILE_TABLE_START_ADDRESS + (FILE_TABLE_PAGES * PAGE_SIZE_BYTES) - 1)

FreshStats ==
    [next_available_address |-> U16(STORAGE_START_ADDRESS),
     space_remaining |-> U16(get_storage_size_bytes),
     initialised |-> INITIALISED]

Formatted == gs.initialised = INITIALISED

NoOut == <<>>

InitFilesystem ==
    /\ ft' = [i \in Slots |-> BlankFile(0)]
    /\ mem' = [a \in (DOMAIN mem) \cup InitBlankedData |->
                  IF a \in InitBlankedData THEN 0 ELSE mem[a]]
    /\ gs' = FreshStats
    /\ adds' = 0
    /\ added' = {}
    /\ allocated' = 0
    /\ UNCHANGED <<fill, callers>>

----------------------------------------------------------------------------
(* add_file *)

(* A call that faults never returns a result code *)
NoReturn == 0 - 1

Trapped(g, t, m) == [status |-> NoReturn, trap |-> TRUE, gs |-> g, ft |-> t, mem |-> m, out |-> NoOut]

Returned(status, g, t, m, out) ==
    [status |-> status, trap |-> FALSE, gs |-> g, ft |-> t, mem |-> m, out |-> out]

(* int requested_space = entries_to_store * file.parameters.length_bytes;
   a product above INT_MAX is a signed overflow: the multiply instruction
   leaves the low 32 bits *)
requested_space(entries_to_store, length_bytes) ==
    IF MulOverflows(entries_to_store, length_bytes)
    THEN WrapMul(entries_to_store, length_bytes)
    ELSE entries_to_store * length_bytes

(* The check answering with the other code of the file-table enum *)
add_file_space_check_other_code(requested, g) ==
    IF requested > g.space_remaining THEN FILE_INVALID_NAME ELSE DATA_MANAGER_OK

(* if(requested_space > g_stats.parameters.space_remaining) return ... *)
add_file_space_check(requested, g) ==
    IF requested > g.space_remaining THEN FILE_TABLE_FULL ELSE DATA_MANAGER_OK

(* The descriptor placed at an address of its own, filename bytes behind
   the allocator's counter *)
add_file_descriptor_apart(g, filename, length_bytes, requested) ==
    WithValid([length_bytes |-> length_bytes,
               file_start_address |-> U16(g.next_available_address + filename),
               file_end_address |-> U16((g.next_available_address + filename + requested) - 1),
               next_available_address |-> U16(g.next_available_address + filename),
               filename |-> filename,
               valid |-> 0])

(* The descriptor add_file builds from the allocator's counters *)
add_file_descriptor(g, filename, length_bytes, requested) ==
    WithValid([length_bytes |-> length_bytes,
               file_start_address |-> g.next_available_address,
               file_end_address |-> U16((g.next_available_address + requested) - 1),
               next_available_address |-> g.next_available_address,
               filename |-> filename,
               valid |-> 0])

(* The counters add_file writes back *)
add_file_stats(g, file) ==
    [g EXCEPT !.next_available_address = U16(file.file_end_address + 1),
              !.space_remaining = U16(EEPROM_SIZE_BYTES - U16(file.file_end_address + 1))]

add_file(g, t, m, filename, length_bytes, entries_to_store, ub) ==
    IF MulOverflows(entries_to_store, length_bytes) /\ ub = "trap"
    THEN Trapped(g, t, m)
    ELSE
    LET requested == requested_space(entries_to_store, length_bytes)
        check == add_file_space_check(requested, g)
        file == add_file_descriptor(g, filename, length_bytes, requested)
        g2 == add_file_stats(g, file)
        address == get_next_available_file_table_address(t)
    IN  IF check # DATA_MANAGER_OK THEN Returned(check, g, t, m, NoOut)
        ELSE IF address = -1 THEN Returned(FILE_TABLE_FULL, g2, t, m, NoOut)
        ELSE Returned(DATA_MANAGER_OK, g2,
                      [t EXCEPT ![SlotOfAddress(address)] = file], m, NoOut)

(* Bookkeeping of the sum of the sizes asked for, saturating at INT_MAX *)
SatMul(a, b) == IF MulOverflows(a, b) THEN INT_MAX ELSE a * b
SatAdd(a, b) == IF a > INT_MAX - b THEN INT_MAX ELSE a + b

AddFile ==
    /\ Formatted
    /\ adds < MaxAddCalls
    /\ \E filename \in Filenames, shape \in FileShapes, ub \in UbOutcomes :
        LET length_bytes == shape[1]
            entries_to_store == shape[2]
            r == add_file(gs, ft, mem, filename, length_bytes, entries_to_store, ub)
        IN  /\ (ub = "trap" => MulOverflows(entries_to_store, length_bytes))
            /\ gs' = r.gs
            /\ ft' = r.ft
            /\ adds' = IF r.gs # gs \/ r.ft # ft THEN adds + 1 ELSE adds
            /\ added' = IF r.status = DATA_MANAGER_OK THEN added \cup {filename} ELSE added
            /\ allocated' = IF r.status = DATA_MANAGER_OK
                            THEN SatAdd(allocated, SatMul(entries_to_store, length_bytes))
                            ELSE allocated
    /\ UNCHANGED <<mem, fill, callers>>

----------------------------------------------------------------------------
(* Entry counts *)

(* int / int with the divisor taken from length_bytes: a zero divisor is a
   division by zero, whose quotient the divide instruction leaves as 0 *)
DivByLength(n, length_bytes) == IF length_bytes = 0 THEN 0 ELSE CDiv(n, length_bytes)

(* The remaining length left in bytes, not divided by length_bytes *)
remaining_length_of(file) ==
    (file.file_end_address + 1) - file.next_available_address

(* remaining_length / length_bytes *)
remaining_entries_of(file) ==
    DivByLength((file.file_end_address + 1) - file.next_available_address,
                file.length_bytes)

(* total_entries - remaining_entries *)
written_entries_of(file) ==
    DivByLength((file.file_end_address - file.file_start_address) + 1, file.length_bytes)
    - remaining_entries_of(file)

Count(status, trap, count) == [status |-> status, trap |-> trap, count |-> count]

get_total_written_file_entries(t, filename, ub) ==
    LET f == get_file_by_name(t, filename)
    IN  IF f.status # DATA_MANAGER_OK THEN Count(f.status, FALSE, 0)
        ELSE IF f.file.length_bytes = 0 /\ ub = "trap" THEN Count(NoReturn, TRUE, 0)
        ELSE Count(DATA_MANAGER_OK, FALSE, written_entries_of(f.file))

get_remaining_file_entries(t, filename, ub) ==
    LET f == get_file_by_name(t, filename)
    IN  IF f.status # DATA_MANAGER_OK THEN Count(f.status, FALSE, 0)
        ELSE IF f.file.length_bytes = 0 /\ ub = "trap" THEN Count(NoReturn, TRUE, 0)
        ELSE Count(DATA_MANAGER_OK, FALSE, remaining_entries_of(f.file))

----------------------------------------------------------------------------
(* read_file_entry *)

(* if(entry_index + 1 > total_written_entries) *)
read_index_check(entry_index, total_written_entries) ==
    entry_index + 1 > total_written_entries

read_file_entry(g, t, m, filename, entry_index, data_length, ub) ==
    LET f == get_file_by_name(t, filename)
        w == get_total_written_file_entries(t, filename, ub)
        address == U16(f.file.file_start_address + (entry_index * data_length))
        rd == StorageRead(g, t, m, address, data_length)
    IN  IF f.status # DATA_MANAGER_OK THEN Returned(f.status, g, t, m, NoOut)
        ELSE IF w.trap THEN Trapped(g, t, m)
        ELSE IF w.status # DATA_MANAGER_OK THEN Returned(w.status, g, t, m, NoOut)
        ELSE IF read_index_check(entry_index, w.count)
             THEN Returned(FILE_ENTRY_INVALID_INDEX, g, t, m, NoOut)
        ELSE IF data_length # f.file.length_bytes
             THEN Returned(FILE_ENTRY_LENGTH_MISMATCH, g, t, m, NoOut)
        ELSE Returned(rd.status, g, t, m, rd.data)

----------------------------------------------------------------------------
(* append_file_entry *)

(* The check with the end of the file taken one entry too far *)
append_bounds_check_late(file, data_length) ==
    (data_length - 1) + file.next_available_address
        > file.file_end_address + data_length

(* if((data_length - 1) + next_available_address > file_end_address) *)
append_bounds_check(file, data_length) ==
    (data_length - 1) + file.next_available_address > file.file_end_address

append_file_entry(g, t, m, filename, data, data_length) ==
    LET f == get_file_by_name(t, filename)
        wr == StorageWrite(g, t, m, f.file.next_available_address, data)
        file2 == WithValid([f.file EXCEPT
                    !.next_available_address = U16(@ + data_length)])
        md == modify_file(wr.ft, filename, file2)
    IN  IF f.status # DATA_MANAGER_OK THEN Returned(f.status, g, t, m, NoOut)
        ELSE IF data_length # f.file.length_bytes
             THEN Returned(FILE_ENTRY_LENGTH_MISMATCH, g, t, m, NoOut)
        ELSE IF append_bounds_check(f.file, data_length)
             THEN Returned(FILE_ENTRY_FULL, g, t, m, NoOut)
        ELSE IF wr.status # DATA_MANAGER_OK THEN Returned(wr.status, g, t, m, NoOut)
        ELSE Returned(md.status, wr.gs, md.ft, wr.mem, NoOut)

----------------------------------------------------------------------------
(* delete_file_entries *)

delete_file_entries(g, t, m, filename) ==
    LET f == get_file_by_name(t, filename)
        file2 == WithValid([f.file EXCEPT
                    !.next_available_address = f.file.file_start_address])
        md == modify_file(t, filename, file2)
    IN  IF f.status # DATA_MANAGER_OK THEN Returned(f.status, g, t, m, NoOut)
        ELSE Returned(md.status, g, md.ft, m, NoOut)

----------------------------------------------------------------------------
(* overwrite_file_entries *)

overwrite_file_entries(g, t, m, filename, data, data_length) ==
    LET f == get_file_by_name(t, filename)
        wr == StorageWrite(g, t, m, f.file.file_start_address, data)
        file2 == WithValid([f.file EXCEPT
                    !.next_available_address = U16(f.file.file_start_address + data_length)])
        md == modify_file(wr.ft, filename, file2)
    IN  IF f.status # DATA_MANAGER_OK THEN Returned(f.status, g, t, m, NoOut)
        ELSE IF data_length # f.file.length_bytes
             THEN Returned(FILE_ENTRY_LENGTH_MISMATCH, g, t, m, NoOut)
        ELSE IF wr.status # DATA_MANAGER_OK THEN Returned(wr.status, g, t, m, NoOut)
        ELSE Returned(md.status, wr.gs, md.ft, wr.mem, NoOut)

----------------------------------------------------------------------------
(* truncate_file *)

(* if(entries_to_remove >= written_entries): the whole file goes *)
truncate_deletes_all(entries_to_remove, written_entries) ==
    entries_to_remove >= written_entries

(* for(current_index = entries_to_remove; current_index < written_entries; ...):
   read the entry at current_index, write it at new_index; every
   read_file_entry looks the file up again on the medium as the writes
   before it left it *)
RECURSIVE truncate_loop(_, _, _, _, _, _, _, _, _)
truncate_loop(g, t, m, filename, file, current_index, new_index, written_entries, ub) ==
    IF ~(current_index < written_entries)
    THEN [status |-> DATA_MANAGER_OK, trap |-> FALSE, gs |-> g, ft |-> t, mem |-> m,
          new_index |-> new_index]
    ELSE
    LET rd == read_file_entry(g, t, m, filename, current_index, file.length_bytes, ub)
        new_address == U16(file.file_start_address + (new_index * file.length_bytes))
        wr == StorageWrite(g, t, m, new_address, rd.out)
    IN  IF rd.trap \/ rd.status # DATA_MANAGER_OK
        THEN [status |-> rd.status, trap |-> rd.trap, gs |-> g, ft |-> t, mem |-> m,
              new_index |-> new_index]
        ELSE IF wr.status # DATA_MANAGER_OK
        THEN [status |-> wr.status, trap |-> FALSE, gs |-> g, ft |-> t, mem |-> m,
              new_index |-> new_index]
        ELSE truncate_loop(wr.gs, wr.ft, wr.mem, filename, file, current_index + 1,
                           new_index + 1, written_entries, ub)

truncate_file(g, t, m, filename, entries_to_remove, ub) ==
    LET f == get_file_by_name(t, filename)
        w == get_total_written_file_entries(t, filename, ub)
        lp == truncate_loop(g, t, m, filename, f.file, entries_to_remove, 0, w.count, ub)
        file2 == WithValid([f.file EXCEPT
                    !.next_available_address =
                        U16(f.file.file_start_address + (lp.new_index * f.file.length_bytes))])
        md == modify_file(lp.ft, filename, file2)
    IN  IF f.status # DATA_MANAGER_OK THEN Returned(f.status, g, t, m, NoOut)
        ELSE IF w.trap THEN Trapped(g, t, m)
        ELSE IF w.status # DATA_MANAGER_OK THEN Returned(w.status, g, t, m, NoOut)
        ELSE IF truncate_deletes_all(entries_to_remove, w.count)
             THEN delete_file_entries(g, t, m, filename)
        ELSE IF lp.trap THEN Trapped(lp.gs, lp.ft, lp.mem)
        ELSE IF lp.status # DATA_MANAGER_OK
             THEN Returned(lp.status, lp.gs, lp.ft, lp.mem, NoOut)
        ELSE Returned(md.status, lp.gs, md.ft, lp.mem, NoOut)

----------------------------------------------------------------------------
(* The storage port with a failing call.  A port value says how many more
   calls the medium answers with DATA_MANAGER_OK before one call fails with
   `code` (left = -1: none fails), and records what the running operation
   has done with it: the calls it issued, whether one of them failed, the
   code of the first failure, and the calls issued after that failure. *)

(* A second code the driver answers a failed call with *)
STORAGE_TIMEOUT == 2

FailureCodes == {STORAGE_FAILURE, STORAGE_TIMEOUT}

(* The call sites a failure is placed at: the k-th storage call of an
   operation fails, for k up to MaxFailAt + 1 *)
MaxFailAt == 7

Port(left, code) ==
    [left |-> left, code |-> code, calls |-> 0, failed |-> FALSE,
     first |-> DATA_MANAGER_OK, late |-> 0]

Healthy == Port(-1, STORAGE_FAILURE)

Ports == {Healthy} \cup {Port(left, code) : left \in 0 .. MaxFailAt, code \in FailureCodes}

(* The port after one call that was answered with status *)
Called(p, status) ==
    [left |-> IF p.left > 0 THEN p.left - 1 ELSE -1,
     code |-> p.code,
     calls |-> p.calls + 1,
     failed |-> p.failed \/ status # DATA_MANAGER_OK,
     first |-> IF ~p.failed /\ status # DATA_MANAGER_OK THEN status ELSE p.first,
     late |-> IF p.failed THEN p.late + 1 ELSE p.late]

(* status = call(...); and the statements behind it: in
   Only({rest : r \in {call}}) the call is made once and the rest of the
   operation runs on r, what it returned *)
Only(results) == CHOOSE out \in results : TRUE

(* _storage.read_from_address on this port *)
PortRead(p, g, t, m, address, length) ==
    IF p.left = 0
    THEN [status |-> p.code, data |-> <<>>, port |-> Called(p, p.code)]
    ELSE Only({[status |-> rd.status, data |-> rd.data,
               port |-> Called(p, rd.status)] :
               rd \in {StorageRead(g, t, m, address, length)}})

(* _storage.write_to_address on this port; a failed write leaves the
   medium as it was *)
PortWrite(p, g, t, m, address, data) ==
    IF p.left = 0
    THEN [status |-> p.code, gs |-> g, ft |-> t, mem |-> m, port |-> Called(p, p.code)]
    ELSE Only({[status |-> wr.status, gs |-> wr.gs, ft |-> wr.ft,
               mem |-> wr.mem, port |-> Called(p, wr.status)] :
               wr \in {StorageWrite(g, t, m, address, data)}})

(* The loop that keeps reading slots after a read has failed *)
read_slots_through(p, n) ==
    LET fails == p.left >= 0 /\ p.left < n
    IN  [status |-> IF fails THEN p.code ELSE DATA_MANAGER_OK,
         read |-> IF fails THEN p.left ELSE n,
         port |-> [left |-> IF fails \/ p.left = -1 THEN -1 ELSE p.left - n,
                   code |-> p.code,
                   calls |-> p.calls + n,
                   failed |-> p.failed \/ fails,
                   first |-> IF ~p.failed /\ fails THEN p.code ELSE p.first,
                   late |-> IF p.failed THEN p.late + n
                            ELSE IF fails THEN p.late + ((n - p.left) - 1)
                            ELSE p.late]]

(* for(file_index = 0; ...) { status = _storage.read_from_address(
   FILE_TABLE_START_ADDRESS + (file_index * file_size), ...);
   if(status != DATA_MANAGER_OK) return status; ... }: the reads of slots
   0 .. n - 1 in order, ending at the first read that fails.  `read` is the
   number of slots read successfully. *)
read_slots(p, n) ==
    LET fails == p.left >= 0 /\ p.left < n
        issued == IF fails THEN p.left + 1 ELSE n
    IN  [status |-> IF fails THEN p.code ELSE DATA_MANAGER_OK,
         read |-> IF fails THEN p.left ELSE n,
         port |-> [left |-> IF fails \/ p.left = -1 THEN -1 ELSE p.left - n,
                   code |-> p.code,
                   calls |-> p.calls + issued,
                   failed |-> p.failed \/ fails,
                   first |-> IF ~p.failed /\ fails THEN p.code ELSE p.first,
                   late |-> IF p.failed THEN p.late + issued ELSE p.late]]

(* What a call on the port leaves: its result and the port after it *)
PortReturned(status, g, t, m, out, p) ==
    [status |-> status, trap |-> FALSE, gs |-> g, ft |-> t, mem |-> m, out |-> out,
     port |-> p]

PortTrapped(g, t, m, p) ==
    [status |-> NoReturn, trap |-> TRUE, gs |-> g, ft |-> t, mem |-> m, out |-> NoOut,
     port |-> p]

(* get_global_stats on the port *)
get_global_stats_port(p, g, t, m) ==
    Only({IF rd.status # DATA_MANAGER_OK
          THEN PortReturned(rd.status, g, t, m, NoOut, rd.port)
          ELSE PortReturned(DATA_MANAGER_OK, g, t, m, StatsOfBytes(rd.data), rd.port) :
          rd \in {PortRead(p, g, t, m, GLOBAL_STATS_START_ADDRESS, GLOBAL_STATS_LENGTH)}})

(* set_global_stats on the port *)
set_global_stats_port(p, g, t, m, stats) ==
    Only({IF wr.status # DATA_MANAGER_OK
          THEN PortReturned(wr.status, g, t, m, NoOut, wr.port)
          ELSE PortReturned(DATA_MANAGER_OK, wr.gs, wr.ft, wr.mem, NoOut, wr.port) :
          wr \in {PortWrite(p, g, t, m, GLOBAL_STATS_START_ADDRESS, StatsBytes(stats))}})

(* is_initialised on the port *)
is_initialised_port(p, g, t, m) ==
    Only({IF st.status # DATA_MANAGER_OK THEN st
          ELSE PortReturned(DATA_MANAGER_OK, g, t, m,
                            is_initialised(st.out).initialised, st.port) :
          st \in {get_global_stats_port(p, g, t, m)}})

(* get_file_by_name on the port: the scan reads up to the matching slot *)
get_file_by_name_port(p, t, filename) ==
    Only({Only({[status |-> IF sc.status # DATA_MANAGER_OK THEN sc.status
                     ELSE f.status,
          index |-> f.index, file |-> f.file, port |-> sc.port] :
          sc \in {read_slots(p, IF f.status = DATA_MANAGER_OK THEN f.index + 1
                       ELSE get_max_files)}}) :
          f \in {get_file_by_name(t, filename)}})

(* get_next_available_file_table_address on the port: the scan reads up to
   the first slot failing the validity check *)
get_next_available_file_table_address_port(p, t) ==
    Only({Only({[status |-> sc.status,
          address |-> IF sc.status # DATA_MANAGER_OK THEN -1 ELSE address,
          port |-> sc.port] :
          sc \in {read_slots(p, IF address # -1 THEN SlotOfAddress(address) + 1
                       ELSE get_max_files)}}) :
          address \in {get_next_available_file_table_address(t)}})

(* total_stored_files on the port: every slot is read, and the slots read
   before a failing read have been counted *)
total_stored_files_port(p, t, valid_files) ==
    Only({[status |-> sc.status,
          valid_files |-> valid_files
              + Cardinality({i \in Slots : i < sc.read /\ is_valid_file(t[i])}),
          port |-> sc.port] :
          sc \in {read_slots(p, get_max_files)}})

(* total_remaining_file_table_entries on the port *)
total_remaining_file_table_entries_port(p, t) ==
    Only({[status |-> st.status,
          remaining_files |-> IF st.status # DATA_MANAGER_OK THEN 0
                              ELSE get_max_files - st.valid_files,
          port |-> st.port] :
          st \in {total_stored_files_port(p, t, 0)}})

(* modify_file on the port: the scan, then the write of the descriptor at
   the slot it stopped at *)
modify_file_port(p, g, t, m, filename, file) ==
    Only({IF f.status # DATA_MANAGER_OK
          THEN PortReturned(f.status, g, t, m, NoOut, f.port)
          ELSE Only({PortReturned(wr.status, wr.gs, wr.ft, wr.mem, NoOut, wr.port) :
                     wr \in {PortWrite(f.port, g, t, m, SlotAddress(f.index), FileBytes(file))}}) :
          f \in {get_file_by_name_port(p, t, filename)}})

(* init_filesystem on the port: for(ft_page = 0; ft_page < FILE_TABLE_PAGES;
   ft_page++) one page of zeros each, ending at the first write that fails *)
RECURSIVE init_pages_port(_, _, _, _, _)
init_pages_port(p, g, t, m, ft_page) ==
    IF ~(ft_page < FILE_TABLE_PAGES)
    THEN PortReturned(DATA_MANAGER_OK, g, t, m, NoOut, p)
    ELSE Only({IF wr.status # DATA_MANAGER_OK
               THEN PortReturned(wr.status, wr.gs, wr.ft, wr.mem, NoOut, wr.port)
               ELSE init_pages_port(wr.port, wr.gs, wr.ft, wr.mem, ft_page + 1) :
               wr \in {PortWrite(p, g, t, m,
                            FILE_TABLE_START_ADDRESS + (ft_page * PAGE_SIZE_BYTES),
                            [i \in 1 .. PAGE_SIZE_BYTES |-> 0])}})

init_filesystem_port(p, g, t, m) ==
    Only({IF pages.status # DATA_MANAGER_OK THEN pages
          ELSE set_global_stats_port(pages.port, pages.gs, pages.ft, pages.mem,
                                     FreshStats) :
          pages \in {init_pages_port(p, g, t, m, 0)}})

(* The add_file that writes the old counters back when the write of the
   descriptor fails *)
add_file_port_rollback(p, g, t, m, filename, length_bytes, entries_to_store, ub) ==
    IF MulOverflows(entries_to_store, length_bytes) /\ ub = "trap"
    THEN PortTrapped(g, t, m, p)
    ELSE
    LET requested == requested_space(entries_to_store, length_bytes)
        Reserved(st, file, ws) ==
            Only({IF na.status # DATA_MANAGER_OK
                  THEN PortReturned(na.status, ws.gs, ws.ft, ws.mem, NoOut, na.port)
                  ELSE IF na.address = -1
                  THEN PortReturned(FILE_TABLE_FULL, ws.gs, ws.ft, ws.mem, NoOut, na.port)
                  ELSE Only({IF wr.status # DATA_MANAGER_OK
                             THEN Only({PortReturned(wr.status, back.gs, back.ft,
                                        back.mem, NoOut, back.port) :
                                        back \in {set_global_stats_port(wr.port, wr.gs, wr.ft,
                                                       wr.mem, st.out)}})
                             ELSE PortReturned(wr.status, wr.gs, wr.ft, wr.mem,
                                               NoOut, wr.port) :
                             wr \in {PortWrite(na.port, ws.gs, ws.ft, ws.mem, na.address,
                                          FileBytes(file))}}) :
                  na \in {get_next_available_file_table_address_port(ws.port, ws.ft)}})
        Checked(st, file) ==
            Only({IF ws.status # DATA_MANAGER_OK THEN ws
                  ELSE Reserved(st, file, ws) :
                  ws \in {set_global_stats_port(st.port, g, t, m, add_file_stats(st.out, file))}})
    IN  Only({IF st.status # DATA_MANAGER_OK THEN st
              ELSE IF add_file_space_check(requested, st.out) # DATA_MANAGER_OK
              THEN PortReturned(add_file_space_check(requested, st.out), g, t, m,
                                NoOut, st.port)
              ELSE Only({Checked(st, file) :
                         file \in {add_file_descriptor(st.out, filename, length_bytes, requested)}}) :
              st \in {get_global_stats_port(p, g, t, m)}})

(* add_file on the port: get_global_stats, set_global_stats, the scan for
   a free slot, the write of the descriptor *)
add_file_port(p, g, t, m, filename, length_bytes, entries_to_store, ub) ==
    IF MulOverflows(entries_to_store, length_bytes) /\ ub = "trap"
    THEN PortTrapped(g, t, m, p)
    ELSE
    LET requested == requested_space(entries_to_store, length_bytes)
        Reserved(st, file, ws) ==
            Only({IF na.status # DATA_MANAGER_OK
                  THEN PortReturned(na.status, ws.gs, ws.ft, ws.mem, NoOut, na.port)
                  ELSE IF na.address = -1
                  THEN PortReturned(FILE_TABLE_FULL, ws.gs, ws.ft, ws.mem, NoOut, na.port)
                  ELSE Only({PortReturned(wr.status, wr.gs, wr.ft, wr.mem,
                             NoOut, wr.port) :
                             wr \in {PortWrite(na.port, ws.gs, ws.ft, ws.mem, na.address,
                                          FileBytes(file))}}) :
                  na \in {get_next_available_file_table_address_port(ws.port, ws.ft)}})
        Checked(st, file) ==
            Only({IF ws.status # DATA_MANAGER_OK THEN ws
                  ELSE Reserved(st, file, ws) :
                  ws \in {set_global_stats_port(st.port, g, t, m, add_file_stats(st.out, file))}})
    IN  Only({IF st.status # DATA_MANAGER_OK THEN st
              ELSE IF add_file_space_check(requested, st.out) # DATA_MANAGER_OK
              THEN PortReturned(add_file_space_check(requested, st.out), g, t, m,
                                NoOut, st.port)
              ELSE Only({Checked(st, file) :
                         file \in {add_file_descriptor(st.out, filename, length_bytes, requested)}}) :
              st \in {get_global_stats_port(p, g, t, m)}})

PortCount(status, trap, count, p) ==
    [status |-> status, trap |-> trap, count |-> count, port |-> p]

(* get_total_written_file_entries on the port *)
get_total_written_file_entries_port(p, t, filename, ub) ==
    Only({IF f.status # DATA_MANAGER_OK THEN PortCount(f.status, FALSE, 0, f.port)
          ELSE IF f.file.length_bytes = 0 /\ ub = "trap"
          THEN PortCount(NoReturn, TRUE, 0, f.port)
          ELSE PortCount(DATA_MANAGER_OK, FALSE, written_entries_of(f.file), f.port) :
          f \in {get_file_by_name_port(p, t, filename)}})

(* get_remaining_file_entries on the port *)
get_remaining_file_entries_port(p, t, filename, ub) ==
    Only({IF f.status # DATA_MANAGER_OK THEN PortCount(f.status, FALSE, 0, f.port)
          ELSE IF f.file.length_bytes = 0 /\ ub = "trap"
          THEN PortCount(NoReturn, TRUE, 0, f.port)
          ELSE PortCount(DATA_MANAGER_OK, FALSE, remaining_entries_of(f.file), f.port) :
          f \in {get_file_by_name_port(p, t, filename)}})

(* get_remaining_file_entries_bytes on the port *)
get_remaining_file_entries_bytes_port(p, t, filename) ==
    Only({IF f.status # DATA_MANAGER_OK THEN PortCount(f.status, FALSE, 0, f.port)
          ELSE PortCount(DATA_MANAGER_OK, FALSE,
                         (f.file.file_end_address + 1) - f.file.next_available_address,
                         f.port) :
          f \in {get_file_by_name_port(p, t, filename)}})

(* read_file_entry on the port *)
read_file_entry_port(p, g, t, m, filename, entry_index, data_length, ub) ==
    LET Counted(f, w) ==
            IF w.trap THEN PortTrapped(g, t, m, w.port)
            ELSE IF w.status # DATA_MANAGER_OK
            THEN PortReturned(w.status, g, t, m, NoOut, w.port)
            ELSE IF read_index_check(entry_index, w.count)
            THEN PortReturned(FILE_ENTRY_INVALID_INDEX, g, t, m, NoOut, w.port)
            ELSE IF data_length # f.file.length_bytes
            THEN PortReturned(FILE_ENTRY_LENGTH_MISMATCH, g, t, m, NoOut, w.port)
            ELSE Only({PortReturned(rd.status, g, t, m, rd.data, rd.port) :
                       rd \in {PortRead(w.port, g, t, m,
                                    U16(f.file.file_start_address + (entry_index * data_length)),
                                    data_length)}})
    IN  Only({IF f.status # DATA_MANAGER_OK
              THEN PortReturned(f.status, g, t, m, NoOut, f.port)
              ELSE Only({Counted(f, w) :
                         w \in {get_total_written_file_entries_port(f.port, t, filename, ub)}}) :
              f \in {get_file_by_name_port(p, t, filename)}})

(* The append that goes on to the descriptor after a failed data write *)
append_file_entry_port_on(p, g, t, m, filename, data, data_length) ==
    LET Written(f, wr) ==
            Only({IF wr.status # DATA_MANAGER_OK
                  THEN PortReturned(wr.status, md.gs, md.ft, md.mem, NoOut, md.port)
                  ELSE md :
                  md \in {modify_file_port(wr.port, wr.gs, wr.ft, wr.mem, filename,
                               WithValid([f.file EXCEPT
                                   !.next_available_address = U16(@ + data_length)]))}})
    IN  Only({IF f.status # DATA_MANAGER_OK
              THEN PortReturned(f.status, g, t, m, NoOut, f.port)
              ELSE IF data_length # f.file.length_bytes
              THEN PortReturned(FILE_ENTRY_LENGTH_MISMATCH, g, t, m, NoOut, f.port)
              ELSE IF append_bounds_check(f.file, data_length)
              THEN PortReturned(FILE_ENTRY_FULL, g, t, m, NoOut, f.port)
              ELSE Only({Written(f, wr) :
                         wr \in {PortWrite(f.port, g, t, m, f.file.next_available_address, data)}}) :
              f \in {get_file_by_name_port(p, t, filename)}})

(* append_file_entry on the port: the scan, the data write, modify_file *)
append_file_entry_port(p, g, t, m, filename, data, data_length) ==
    LET Written(f, wr) ==
            Only({IF wr.status # DATA_MANAGER_OK
                  THEN PortReturned(wr.status, g, t, m, NoOut, wr.port)
                  ELSE md :
                  md \in {modify_file_port(wr.port, wr.gs, wr.ft, wr.mem, filename,
                               WithValid([f.file EXCEPT
                                   !.next_available_address = U16(@ + data_length)]))}})
    IN  Only({IF f.status # DATA_MANAGER_OK
              THEN PortReturned(f.status, g, t, m, NoOut, f.port)
              ELSE IF data_length # f.file.length_bytes
              THEN PortReturned(FILE_ENTRY_LENGTH_MISMATCH, g, t, m, NoOut, f.port)
              ELSE IF append_bounds_check(f.file, data_length)
              THEN PortReturned(FILE_ENTRY_FULL, g, t, m, NoOut, f.port)
              ELSE Only({Written(f, wr) :
                         wr \in {PortWrite(f.port, g, t, m, f.file.next_available_address, data)}}) :
              f \in {get_file_by_name_port(p, t, filename)}})

(* delete_file_entries on the port *)
delete_file_entries_port(p, g, t, m, filename) ==
    Only({IF f.status # DATA_MANAGER_OK
          THEN PortReturned(f.status, g, t, m, NoOut, f.port)
          ELSE modify_file_port(f.port, g, t, m, filename,
                  WithValid([f.file EXCEPT
                      !.next_available_address = f.file.file_start_address])) :
          f \in {get_file_by_name_port(p, t, filename)}})

(* overwrite_file_entries on the port *)
overwrite_file_entries_port(p, g, t, m, filename, data, data_length) ==
    LET Written(f, wr) ==
            IF wr.status # DATA_MANAGER_OK
            THEN PortReturned(wr.status, g, t, m, NoOut, wr.port)
            ELSE modify_file_port(wr.port, wr.gs, wr.ft, wr.mem, filename,
                    WithValid([f.file EXCEPT
                        !.next_available_address =
                            U16(f.file.file_start_address + data_length)]))
    IN  Only({IF f.status # DATA_MANAGER_OK
              THEN PortReturned(f.status, g, t, m, NoOut, f.port)
              ELSE IF data_length # f.file.length_bytes
              THEN PortReturned(FILE_ENTRY_LENGTH_MISMATCH, g, t, m, NoOut, f.port)
              ELSE Only({Written(f, wr) :
                         wr \in {PortWrite(f.port, g, t, m, f.file.file_start_address, data)}}) :
              f \in {get_file_by_name_port(p, t, filename)}})

(* The copy loop of truncate_file on the port *)
RECURSIVE truncate_loop_port(_, _, _, _, _, _, _, _, _, _)
truncate_loop_port(p, g, t, m, filename, file, current_index, new_index, written_entries, ub) ==
    IF ~(current_index < written_entries)
    THEN [status |-> DATA_MANAGER_OK, trap |-> FALSE, gs |-> g, ft |-> t, mem |-> m,
          new_index |-> new_index, port |-> p]
    ELSE
    LET Copied(wr) ==
            IF wr.status # DATA_MANAGER_OK
            THEN [status |-> wr.status, trap |-> FALSE, gs |-> g, ft |-> t, mem |-> m,
                  new_index |-> new_index, port |-> wr.port]
            ELSE truncate_loop_port(wr.port, wr.gs, wr.ft, wr.mem, filename, file,
                                    current_index + 1, new_index + 1, written_entries, ub)
    IN  Only({IF rd.trap \/ rd.status # DATA_MANAGER_OK
              THEN [status |-> rd.status, trap |-> rd.trap, gs |-> g, ft |-> t,
                    mem |-> m, new_index |-> new_index, port |-> rd.port]
              ELSE Only({Copied(wr) :
                         wr \in {PortWrite(rd.port, g, t, m,
                                      U16(file.file_start_address
                                          + (new_index * file.length_bytes)),
                                      rd.out)}}) :
              rd \in {read_file_entry_port(p, g, t, m, filename, current_index,
                           file.length_bytes, ub)}})

(* truncate_file on the port *)
truncate_file_port(p, g, t, m, filename, entries_to_remove, ub) ==
    LET Looped(f, lp) ==
            IF lp.trap THEN PortTrapped(lp.gs, lp.ft, lp.mem, lp.port)
            ELSE IF lp.status # DATA_MANAGER_OK
            THEN PortReturned(lp.status, lp.gs, lp.ft, lp.mem, NoOut, lp.port)
            ELSE modify_file_port(lp.port, lp.gs, lp.ft, lp.mem, filename,
                    WithValid([f.file EXCEPT
                        !.next_available_address =
                            U16(f.file.file_start_address
                                + (lp.new_index * f.file.length_bytes))]))
        Counted(f, w) ==
            IF w.trap THEN PortTrapped(g, t, m, w.port)
            ELSE IF w.status # DATA_MANAGER_OK
            THEN PortReturned(w.status, g, t, m, NoOut, w.port)
            ELSE IF truncate_deletes_all(entries_to_remove, w.count)
            THEN delete_file_entries_port(w.port, g, t, m, filename)
            ELSE Only({Looped(f, lp) :
                       lp \in {truncate_loop_port(w.port, g, t, m, filename, f.file,
                                    entries_to_remove, 0, w.count, ub)}})
    IN  Only({IF f.status # DATA_MANAGER_OK
              THEN PortReturned(f.status, g, t, m, NoOut, f.port)
              ELSE Only({Counted(f, w) :
                         w \in {get_total_written_file_entries_port(f.port, t, filename, ub)}}) :
              f \in {get_file_by_name_port(p, t, filename)}})

----------------------------------------------------------------------------
(* The public calls as steps *)

Block(seed, length) == [i \in 1 .. length |-> U8(seed + i - 1)]

(* What a call leaves on the medium; its result code goes to the caller *)
Apply(r) ==
    /\ gs' = r.gs
    /\ ft' = r.ft
    /\ mem' = r.mem
    /\ UNCHANGED <<fill, adds, added, allocated, callers>>

ReadFileEntry ==
    /\ Formatted
    /\ \E filename \in Filenames, entry_index \in EntryIndexes,
          data_length \in DataLengths, ub \in UbOutcomes :
        Apply(read_file_entry(gs, ft, mem, filename, entry_index, data_length, ub))

AppendFileEntry ==
    /\ Formatted
    /\ \E filename \in Filenames, data_length \in DataLengths, seed \in DataSeeds :
        LET data == Block(seed, data_length)
        IN  Apply(append_file_entry(gs, ft, mem, filename, data, data_length))

DeleteFileEntries ==
    /\ Formatted
    /\ \E filename \in Filenames :
        Apply(delete_file_entries(gs, ft, mem, filename))

OverwriteFileEntries ==
    /\ Formatted
    /\ \E filename \in Filenames, data_length \in DataLengths, seed \in DataSeeds :
        LET data == Block(seed, data_length)
        IN  Apply(overwrite_file_entries(gs, ft, mem, filename, data, data_length))

TruncateFile ==
    /\ Formatted
    /\ \E filename \in Filenames, entries_to_remove \in TruncateCounts, ub \in UbOutcomes :
        /\ entries_to_remove < 0 =>
              get_total_written_file_entries(ft, filename, "value").count - entries_to_remove
                  <= MaxWritten
        /\ Apply(truncate_file(gs, ft, mem, filename, entries_to_remove, ub))

----------------------------------------------------------------------------

(* The callers of the unserialized add_file calls; outside those calls
   every caller is idle *)
Callers == {1, 2}

IdleCaller ==
    [pc |-> "idle", filename |-> 0, length_bytes |-> 0, requested |-> 0,
     stats |-> BlankStats(0), file |-> BlankFile(0), file_index |-> 0,
     address |-> -1, status |-> NoReturn]

Init ==
    /\ fill \in BlankBytes
    /\ gs = BlankStats(fill)
    /\ ft = [i \in Slots |-> BlankFile(fill)]
    /\ mem = <<>>
    /\ adds = 0
    /\ added = {}
    /\ allocated = 0
    /\ callers = [c \in Callers |-> IdleCaller]

Next ==
    \/ InitFilesystem
    \/ AddFile
    \/ ReadFileEntry
    \/ AppendFileEntry
    \/ DeleteFileEntries
    \/ OverwriteFileEntries
    \/ TruncateFile

Spec == Init /\ [][Next]_vars

----------------------------------------------------------------------------
(* The same calls on a medium whose file table has been filled: after
   init_filesystem, get_max_files calls add_file(k, 2, 2) for k = 1, 2, ...
   have each taken a slot.  adds counts the add_file calls made from then
   on. *)

(* GlobalStats as the first k of those calls leave it: each advances the
   allocator by its 2 * 2 bytes *)
StatsAfter(k) ==
    [FreshStats EXCEPT
        !.next_available_address = U16(STORAGE_START_ADDRESS + (k * 4)),
        !.space_remaining = U16(EEPROM_SIZE_BYTES - (STORAGE_START_ADDRESS + (k * 4)))]

FilledMedium ==
    [gs |-> StatsAfter(get_max_files),
     ft |-> [i \in Slots |-> add_file_descriptor(StatsAfter(i), i + 1, 2, 4)],
     mem |-> [a \in InitBlankedData |-> 0]]

InitFull ==
    /\ fill \in BlankBytes
    /\ gs = FilledMedium.gs
    /\ ft = FilledMedium.ft
    /\ mem = FilledMedium.mem
    /\ adds = 0
    /\ added = 1 .. get_max_files
    /\ allocated = get_max_files * 4
    /\ callers = [c \in Callers |-> IdleCaller]

SpecFull == InitFull /\ [][Next]_vars

----------------------------------------------------------------------------
(* The same calls on a port that may fail one storage call of each
   operation: what the calls before the failing one wrote stays on the
   medium. *)

(* <<length_bytes, entries_to_store>> of the files created on this port *)
PortShapes == {<<2, 2>>, <<2, 0>>}

(* The ports, data and counts the steps are taken with *)
StepPorts == {Healthy} \cup {Port(left, STORAGE_FAILURE) : left \in 0 .. MaxFailAt}
StepSeeds == {17}
StepCounts == {0, 1}

ApplyPort(returned) ==
    \E r \in {returned} :
        /\ gs' = r.gs
        /\ ft' = r.ft
        /\ mem' = r.mem
        /\ UNCHANGED <<fill, adds, added, allocated, callers>>

InitFilesystemPort ==
    \E p \in StepPorts :
        \E r \in {init_filesystem_port(p, gs, ft, mem)} :
            /\ gs' = r.gs
            /\ ft' = r.ft
            /\ mem' = r.mem
            /\ adds' = IF r.status = DATA_MANAGER_OK THEN 0 ELSE adds
            /\ added' = IF r.status = DATA_MANAGER_OK THEN {} ELSE added
            /\ allocated' = IF r.status = DATA_MANAGER_OK THEN 0 ELSE allocated
            /\ UNCHANGED <<fill, callers>>

AddFilePort ==
    /\ Formatted
    /\ adds < MaxAddCalls
    /\ \E p \in StepPorts, filename \in Filenames, shape \in PortShapes :
        \E r \in {add_file_port(p, gs, ft, mem, filename, shape[1], shape[2], "value")} :
            /\ gs' = r.gs
            /\ ft' = r.ft
            /\ mem' = r.mem
            /\ adds' = IF r.gs # gs \/ r.ft # ft THEN adds + 1 ELSE adds
            /\ added' = IF r.status = DATA_MANAGER_OK THEN added \cup {filename} ELSE added
            /\ allocated' = IF r.status = DATA_MANAGER_OK
                            THEN SatAdd(allocated, SatMul(shape[2], shape[1]))
                            ELSE allocated
            /\ UNCHANGED <<fill, callers>>

ReadFileEntryPort ==
    /\ Formatted
    /\ \E p \in StepPorts, filename \in Filenames, entry_index \in EntryIndexes,
          data_length \in DataLengths :
        ApplyPort(read_file_entry_port(p, gs, ft, mem, filename, entry_index,
                                       data_length, "value"))

AppendFileEntryPort ==
    /\ Formatted
    /\ \E p \in StepPorts, filename \in Filenames, data_length \in DataLengths,
          seed \in StepSeeds :
        ApplyPort(append_file_entry_port(p, gs, ft, mem, filename,
                                         Block(seed, data_length), data_length))

DeleteFileEntriesPort ==
    /\ Formatted
    /\ \E p \in StepPorts, filename \in Filenames :
        ApplyPort(delete_file_entries_port(p, gs, ft, mem, filename))

OverwriteFileEntriesPort ==
    /\ Formatted
    /\ \E p \in StepPorts, filename \in Filenames, data_length \in DataLengths,
          seed \in StepSeeds :
        ApplyPort(overwrite_file_entries_port(p, gs, ft, mem, filename,
                                              Block(seed, data_length), data_length))

TruncateFilePort ==
    /\ Formatted
    /\ \E p \in StepPorts, filename \in Filenames, entries_to_remove \in StepCounts :
        ApplyPort(truncate_file_port(p, gs, ft, mem, filename, entries_to_remove,
                                     "value"))

NextPort ==
    \/ InitFilesystemPort
    \/ AddFilePort
    \/ ReadFileEntryPort
    \/ AppendFileEntryPort
    \/ DeleteFileEntriesPort
    \/ OverwriteFileEntriesPort
    \/ TruncateFilePort

SpecPort == Init /\ [][NextPort]_vars

----------------------------------------------------------------------------
(* add_file called by two callers with nothing serializing them: each
   storage call of add_file is one step, and the steps of the two calls
   interleave.  adds counts the calls begun. *)

(* The medium as init_filesystem leaves a blank one *)
InitTwo ==
    /\ fill \in BlankBytes
    /\ gs = FreshStats
    /\ ft = [i \in Slots |-> BlankFile(0)]
    /\ mem = [a \in InitBlankedData |-> 0]
    /\ adds = 0
    /\ added = {}
    /\ allocated = 0
    /\ callers = [c \in Callers |-> IdleCaller]

At(c, pc) == callers[c].pc = pc

Goes(c, local) ==
    callers' = [callers EXCEPT ![c] = local]

(* The call: int requested_space = entries_to_store * length_bytes *)
CallAddFile(c) ==
    /\ At(c, "idle")
    /\ adds < MaxAddCalls
    /\ \E filename \in Filenames, shape \in PortShapes :
        Goes(c, [IdleCaller EXCEPT !.pc = "get_global_stats",
                                   !.filename = filename,
                                   !.length_bytes = shape[1],
                                   !.requested = requested_space(shape[2], shape[1])])
    /\ adds' = adds + 1
    /\ UNCHANGED <<gs, ft, mem, fill, added, allocated>>

(* get_global_stats, the space check and the descriptor built from the
   counters read *)
GetGlobalStats(c) ==
    /\ At(c, "get_global_stats")
    /\ LET local == callers[c]
           check == add_file_space_check(local.requested, gs)
       IN  IF check # DATA_MANAGER_OK
           THEN Goes(c, [local EXCEPT !.pc = "returned", !.stats = gs, !.status = check])
           ELSE Goes(c, [local EXCEPT
                    !.pc = "set_global_stats",
                    !.stats = gs,
                    !.file = add_file_descriptor(gs, local.filename, local.length_bytes,
                                                 local.requested)])
    /\ UNCHANGED <<gs, ft, mem, fill, adds, added, allocated>>

(* set_global_stats with the counters advanced from the ones read *)
SetGlobalStats(c) ==
    /\ At(c, "set_global_stats")
    /\ gs' = add_file_stats(callers[c].stats, callers[c].file)
    /\ Goes(c, [callers[c] EXCEPT !.pc = "scan", !.file_index = 0])
    /\ UNCHANGED <<ft, mem, fill, adds, added, allocated>>

(* get_next_available_file_table_address: one read of the slot at
   file_index *)
ScanSlot(c) ==
    /\ At(c, "scan")
    /\ LET local == callers[c]
       IN  IF ~(local.file_index < get_max_files)
           THEN Goes(c, [local EXCEPT !.pc = "returned", !.status = FILE_TABLE_FULL])
           ELSE IF ~is_valid_file(ft[local.file_index])
           THEN Goes(c, [local EXCEPT !.pc = "write_descriptor",
                                      !.address = SlotAddress(local.file_index)])
           ELSE Goes(c, [local EXCEPT !.file_index = @ + 1])
    /\ UNCHANGED <<gs, ft, mem, fill, adds, added, allocated>>

(* _storage.write_to_address(address, file.data, sizeof(file)) *)
WriteDescriptor(c) ==
    /\ At(c, "write_descriptor")
    /\ ft' = [ft EXCEPT ![SlotOfAddress(callers[c].address)] = callers[c].file]
    /\ Goes(c, [callers[c] EXCEPT !.pc = "returned", !.status = DATA_MANAGER_OK])
    /\ UNCHANGED <<gs, mem, fill, adds, added, allocated>>

(* The caller goes on to its next call *)
NextCall(c) ==
    /\ At(c, "returned")
    /\ Goes(c, IdleCaller)
    /\ UNCHANGED <<gs, ft, mem, fill, adds, added, allocated>>

NextTwo ==
    \E c \in Callers :
        \/ CallAddFile(c)
        \/ GetGlobalStats(c)
        \/ SetGlobalStats(c)
        \/ ScanSlot(c)
        \/ WriteDescriptor(c)
        \/ NextCall(c)

SpecTwo == InitTwo /\ [][NextTwo]_vars

----------------------------------------------------------------------------
(* Vocabulary of the properties *)

Occupied == {i \in Slots : is_valid_file(ft[i])}

Exists(filename) == get_file_by_name(ft, filename).status = DATA_MANAGER_OK

FileOf(filename) == get_file_by_name(ft, filename).file

DataRegionEnd == STORAGE_START_ADDRESS + STORAGE_LENGTH - 1

NonEmptyRange(file) == file.file_start_address <= file.file_end_address

InsideDataRegion(file) ==
    NonEmptyRange(file) =>
        /\ file.file_start_address >= STORAGE_START_ADDRESS
        /\ file.file_end_address <= DataRegionEnd

DisjointRanges(f1, f2) ==
    \/ ~NonEmptyRange(f1)
    \/ ~NonEmptyRange(f2)
    \/ f1.file_end_address < f2.file_start_address
    \/ f2.file_end_address < f1.file_start_address

RangeSize(file) ==
    IF NonEmptyRange(file) THEN (file.file_end_address - file.file_start_address) + 1 ELSE 0

RECURSIVE ReservedBytes(_)
ReservedBytes(S) ==
    IF S = {} THEN 0
    ELSE LET i == CHOOSE x \in S : TRUE
         IN  RangeSize(ft[i]) + ReservedBytes(S \ {i})

IsMultipleOf(x, length_bytes) ==
    IF length_bytes = 0 THEN x = 0 ELSE x % length_bytes = 0

Max(a, b) == IF a >= b THEN a ELSE b

----------------------------------------------------------------------------
(* C1 - round trip: when append_file_entry(name, data) with a block as long
   as the file's length_bytes returns success, read_file_entry(name,
   written_entry_count - 1, length_bytes) right afterwards returns success
   and yields exactly data.  Stated for the blocks of one byte or more,
   where no entry count divides by zero. *)
C1_RoundTrip ==
    \A filename \in Filenames, data_length \in DataLengths,
       seed \in DataSeeds, ub \in UbOutcomes :
        LET data == Block(seed, data_length)
            ap == append_file_entry(gs, ft, mem, filename, data, data_length)
            w == get_total_written_file_entries(ap.ft, filename, ub)
            rd == read_file_entry(ap.gs, ap.ft, ap.mem, filename, w.count - 1,
                                  data_length, ub)
        IN  (/\ Formatted
             /\ Exists(filename)
             /\ data_length > 0
             /\ ap.status = DATA_MANAGER_OK)
            => (rd.status = DATA_MANAGER_OK /\ rd.out = data)

(* C2 - once add_file(name, ...) has returned success, get_file_by_name(name)
   returns success and the descriptor it finds passes the validity check,
   in every state reached afterwards without init_filesystem. *)
C2_StaysFindable ==
    \A filename \in added :
        /\ Exists(filename)
        /\ FileOf(filename).valid # 0
        /\ FileOf(filename).valid = Checksum(FileOf(filename))

(* C3 - after init_filesystem the byte ranges [file_start_address,
   file_end_address] of the occupied descriptors are pairwise disjoint, each
   lies inside the data region, and together they never exceed its size. *)
C3_DisjointRanges ==
    Formatted =>
        /\ \A i \in Occupied : InsideDataRegion(ft[i])
        /\ \A i, j \in Occupied : i # j => DisjointRanges(ft[i], ft[j])
        /\ ReservedBytes(Occupied) <= STORAGE_LENGTH

(* C4 - at most one occupied slot of the file table holds any given
   filename. *)
C4_UniqueFilenames ==
    \A i, j \in Occupied : ft[i].filename = ft[j].filename => i = j

(* C5 - for every occupied descriptor next_available_address lies in
   [file_start_address, file_end_address + 1] and its distance from
   file_start_address is a multiple of length_bytes. *)
C5_CursorInFile ==
    \A i \in Occupied :
        /\ ft[i].next_available_address >= ft[i].file_start_address
        /\ ft[i].next_available_address <= ft[i].file_end_address + 1
        /\ IsMultipleOf(ft[i].next_available_address - ft[i].file_start_address,
                        ft[i].length_bytes)

(* C6 - append bounds: when next_available_address + length_bytes - 1 >
   file_end_address, append_file_entry with the file's length returns
   FILE_ENTRY_FULL, writes nothing to storage and leaves the descriptor as it
   was. *)
C6_AppendBounds ==
    \A filename \in Filenames, seed \in DataSeeds, data_length \in DataLengths :
        LET file == FileOf(filename)
            ap == append_file_entry(gs, ft, mem, filename,
                                    Block(seed, data_length), data_length)
        IN  (/\ Formatted
             /\ Exists(filename)
             /\ data_length = file.length_bytes
             /\ file.next_available_address + file.length_bytes - 1
                    > file.file_end_address)
            => (/\ ap.status = FILE_ENTRY_FULL
                /\ ap.mem = mem
                /\ ap.ft = ft
                /\ ap.gs = gs)

(* C6, its case: a file filled to its last entry refuses one more *)
C6_Witness ==
    \E filename \in Filenames :
        /\ Formatted
        /\ Exists(filename)
        /\ FileOf(filename).length_bytes \in DataLengths \ {0}
        /\ written_entries_of(FileOf(filename)) >= 2
        /\ FileOf(filename).next_available_address = FileOf(filename).file_end_address + 1
        /\ append_file_entry(gs, ft, mem, filename,
                             Block(17, FileOf(filename).length_bytes),
                             FileOf(filename).length_bytes).status = FILE_ENTRY_FULL

(* C7 - truncate-head: for a file holding w entries and any n >= 0, after a
   successful truncate_file(name, n) the written entry count is
   max(0, w - n), read_file_entry(name, i) returns the former entry i + n
   for every i in [0, w - n), and with n >= w the medium is as
   delete_file_entries leaves it. *)
RemoveCounts == 0 .. (MaxWritten + 1)

C7_TruncateHead ==
    \A filename \in Filenames, n \in RemoveCounts, ub \in UbOutcomes :
        LET file == FileOf(filename)
            w == get_total_written_file_entries(ft, filename, ub)
            tr == truncate_file(gs, ft, mem, filename, n, ub)
            w2 == get_total_written_file_entries(tr.ft, filename, ub)
            dl == delete_file_entries(gs, ft, mem, filename)
        IN  (Formatted /\ Exists(filename) /\ tr.status = DATA_MANAGER_OK)
            => (/\ w2.status = DATA_MANAGER_OK
                /\ w2.count = Max(0, w.count - n)
                /\ \A i \in 0 .. (w.count - n - 1) :
                     LET before == read_file_entry(gs, ft, mem, filename, i + n,
                                                   file.length_bytes, ub)
                         after == read_file_entry(tr.gs, tr.ft, tr.mem, filename, i,
                                                  file.length_bytes, ub)
                     IN  /\ after.status = DATA_MANAGER_OK
                         /\ after.out = before.out
                /\ (n >= w.count => (tr.ft = dl.ft /\ tr.mem = dl.mem /\ tr.gs = dl.gs)))

(* C8 - space exhaustion: when length_bytes * entries_to_store exceeds
   space_remaining, add_file fails, leaves GlobalStats as it was and takes
   no slot of the file table. *)
C8_SpaceExhaustion ==
    \A filename \in Filenames, shape \in FileShapes, ub \in UbOutcomes :
        LET ad == add_file(gs, ft, mem, filename, shape[1], shape[2], ub)
        IN  (Formatted /\ SatMul(shape[2], shape[1]) > gs.space_remaining)
            => (/\ ad.status # DATA_MANAGER_OK
                /\ ad.gs = gs
                /\ ad.ft = ft)

(* C9 as stated - an add_file call turned down because the size asked for
   exceeds space_remaining reports a result of its own, which differs from
   the one reported when the file table has no free slot (FILE_TABLE_FULL). *)
C9_OwnResultCode ==
    \A filename \in Filenames, shape \in FileShapes :
        LET requested == requested_space(shape[2], shape[1])
            ad == add_file(gs, ft, mem, filename, shape[1], shape[2], "value")
        IN  (Formatted /\ requested > gs.space_remaining)
            => ad.status # FILE_TABLE_FULL

(* The file table once further add_file calls for files of no entries have
   taken every slot still free *)
FilledUp(t) ==
    [i \in Slots |-> IF is_valid_file(t[i]) THEN t[i]
                     ELSE add_file_descriptor(gs, 1, 2, 0)]

(* C9 as amended - an add_file call turned down because the size asked for
   exceeds space_remaining returns FILE_TABLE_FULL, the very code add_file
   returns when the file table has no free slot. *)
C9_SpaceReportedAsTableFull ==
    \A filename \in Filenames, shape \in FileShapes :
        LET requested == requested_space(shape[2], shape[1])
            ad == add_file(gs, ft, mem, filename, shape[1], shape[2], "value")
            noslot == add_file(gs, FilledUp(ft), mem, filename, 2, 0, "value")
        IN  Formatted =>
              /\ noslot.status = FILE_TABLE_FULL
              /\ requested > gs.space_remaining => ad.status = noslot.status

(* C9, its case: with a file already stored, a request larger than what is
   left is turned down *)
C9_Witness ==
    /\ Formatted
    /\ Occupied # {}
    /\ gs.space_remaining < STORAGE_LENGTH
    /\ \E filename \in Filenames, shape \in FileShapes :
        /\ ~MulOverflows(shape[2], shape[1])
        /\ shape[2] * shape[1] > gs.space_remaining
        /\ add_file(gs, ft, mem, filename, shape[1], shape[2], "value").status
               = FILE_TABLE_FULL

(* C10 - allocator monotonicity: after init_filesystem and N add_file calls
   that returned success, GlobalStats.next_available_address is
   STORAGE_START_ADDRESS plus the sum of length_bytes * entries_to_store and
   space_remaining is STORAGE_LENGTH minus that sum. *)
C10_AllocatorSums ==
    Formatted =>
        /\ gs.next_available_address - STORAGE_START_ADDRESS = allocated
        /\ gs.space_remaining = STORAGE_LENGTH - allocated

(* C11 - is_initialised sets its output to true exactly when the persisted
   GlobalStats.initialised equals INITIALISED, and to false otherwise, as on
   a blank medium. *)
C11_InitialisedFlag ==
    LET r == is_initialised(gs)
    IN  /\ r.status = DATA_MANAGER_OK
        /\ r.initialised = (gs.initialised = INITIALISED)

(* C12 - from any prior state init_filesystem leaves every slot of the file
   table unoccupied (total_stored_files is 0, get_file_by_name returns
   FILE_INVALID_NAME for every filename) and GlobalStats equal to
   (STORAGE_START_ADDRESS, STORAGE_LENGTH, INITIALISED). *)
C12_InitLeavesEmpty ==
    [][InitFilesystem =>
        /\ \A i \in Slots : ~is_valid_file(ft'[i])
        /\ \A filename \in Filenames :
              get_file_by_name(ft', filename).status = FILE_INVALID_NAME
        /\ \A v \in CallerValues : total_stored_files(ft', v).valid_files = 0
        /\ gs'.next_available_address = STORAGE_START_ADDRESS
        /\ gs'.space_remaining = STORAGE_LENGTH
        /\ gs'.initialised = INITIALISED]_vars

(* C13 - read_file_entry on an existing file with data_length different from
   length_bytes returns FILE_ENTRY_LENGTH_MISMATCH for every entry_index,
   the indexes not below the written entry count included. *)
C13_LengthMismatchFirst ==
    \A filename \in Filenames, entry_index \in EntryIndexes,
       data_length \in DataLengths :
        LET rd == read_file_entry(gs, ft, mem, filename, entry_index, data_length,
                                  "value")
        IN  (/\ Formatted
             /\ Exists(filename)
             /\ FileOf(filename).length_bytes > 0
             /\ data_length # FileOf(filename).length_bytes)
            => rd.status = FILE_ENTRY_LENGTH_MISMATCH

(* C14 - when no valid descriptor with the given filename exists, each of
   read_file_entry, append_file_entry, overwrite_file_entries,
   delete_file_entries, truncate_file, get_total_written_file_entries and
   get_remaining_file_entries returns FILE_INVALID_NAME and writes nothing
   to storage. *)
(* No slot holds a descriptor of that filename that passes the validity check *)
NoDescriptor(filename) ==
    \A i \in Slots : ~(is_valid_file(ft[i]) /\ ft[i].filename = filename)

Untouched(r) == r.gs = gs /\ r.ft = ft /\ r.mem = mem

C14_NoSuchFile ==
    \A filename \in Filenames, ub \in UbOutcomes :
        NoDescriptor(filename) =>
            /\ \A entry_index \in EntryIndexes, data_length \in DataLengths :
                  LET r == read_file_entry(gs, ft, mem, filename, entry_index,
                                           data_length, ub)
                  IN  r.status = FILE_INVALID_NAME /\ Untouched(r)
            /\ \A data_length \in DataLengths, seed \in DataSeeds :
                  LET ap == append_file_entry(gs, ft, mem, filename,
                                              Block(seed, data_length), data_length)
                      ov == overwrite_file_entries(gs, ft, mem, filename,
                                                   Block(seed, data_length), data_length)
                  IN  /\ ap.status = FILE_INVALID_NAME /\ Untouched(ap)
                      /\ ov.status = FILE_INVALID_NAME /\ Untouched(ov)
            /\ LET dl == delete_file_entries(gs, ft, mem, filename)
               IN  dl.status = FILE_INVALID_NAME /\ Untouched(dl)
            /\ \A entries_to_remove \in TruncateCounts :
                  LET tr == truncate_file(gs, ft, mem, filename, entries_to_remove, ub)
                  IN  tr.status = FILE_INVALID_NAME /\ Untouched(tr)
            /\ get_total_written_file_entries(ft, filename, ub).status = FILE_INVALID_NAME
            /\ get_remaining_file_entries(ft, filename, ub).status = FILE_INVALID_NAME

(* C14, its case: beside a stored file, a filename whose descriptor no longer
   passes the validity check is turned down *)
C14_Witness ==
    /\ Formatted
    /\ Occupied # {}
    /\ \E filename \in added :
        /\ NoDescriptor(filename)
        /\ append_file_entry(gs, ft, mem, filename, Block(17, 2), 2).status
               = FILE_INVALID_NAME
        /\ delete_file_entries(gs, ft, mem, filename).status = FILE_INVALID_NAME

(* C15 - after a successful overwrite_file_entries(name, data, length_bytes)
   on an existing file in any prior state the written entry count is 1,
   next_available_address is file_start_address + length_bytes and
   read_file_entry(name, 0) returns data.  Stated for the blocks of one byte
   or more, where no entry count divides by zero. *)
C15_OverwriteLeavesOne ==
    \A filename \in Filenames, data_length \in DataLengths, seed \in DataSeeds :
        LET data == Block(seed, data_length)
            before == FileOf(filename)
            ov == overwrite_file_entries(gs, ft, mem, filename, data, data_length)
            w == get_total_written_file_entries(ov.ft, filename, "value")
            f == get_file_by_name(ov.ft, filename)
            rd == read_file_entry(ov.gs, ov.ft, ov.mem, filename, 0, data_length,
                                  "value")
        IN  (/\ Formatted
             /\ Exists(filename)
             /\ data_length > 0
             /\ data_length = before.length_bytes
             /\ ov.status = DATA_MANAGER_OK)
            => (/\ w.status = DATA_MANAGER_OK
                /\ w.count = 1
                /\ f.status = DATA_MANAGER_OK
                /\ f.file.next_available_address
                       = before.file_start_address + before.length_bytes
                /\ rd.status = DATA_MANAGER_OK
                /\ rd.out = data)

(* C16 - delete_file_entries twice in a row on an existing file: after each
   call next_available_address is file_start_address and the written entry
   count is 0, and the descriptor after the second call is the one after the
   first. *)
C16_DeleteTwice ==
    \A filename \in Filenames, ub \in UbOutcomes :
        LET d1 == delete_file_entries(gs, ft, mem, filename)
            d2 == delete_file_entries(d1.gs, d1.ft, d1.mem, filename)
            f1 == get_file_by_name(d1.ft, filename)
            f2 == get_file_by_name(d2.ft, filename)
            w1 == get_total_written_file_entries(d1.ft, filename, ub)
            w2 == get_total_written_file_entries(d2.ft, filename, ub)
        IN  (Formatted /\ Exists(filename))
            => (/\ d1.status = DATA_MANAGER_OK
                /\ d2.status = DATA_MANAGER_OK
                /\ f1.status = DATA_MANAGER_OK
                /\ f1.file.next_available_address = f1.file.file_start_address
                /\ f2.file.next_available_address = f2.file.file_start_address
                /\ w1.status = DATA_MANAGER_OK /\ w1.count = 0
                /\ w2.status = DATA_MANAGER_OK /\ w2.count = 0
                /\ d2.ft = d1.ft)

(* C17 - end to end: after init_filesystem, add_file(filename 1,
   length_bytes 4, 3 entries) and two appends of <<1, 2, 3, 4>> give a
   written entry count of 2 and a remaining entry count of 1; a third append
   succeeds; a fourth returns FILE_ENTRY_FULL. *)
ScenarioData == <<1, 2, 3, 4>>

ScenarioAdd == add_file(gs, ft, mem, 1, 4, 3, "value")

ScenarioAppend(r) == append_file_entry(r.gs, r.ft, r.mem, 1, ScenarioData, 4)

ScenarioTwo == ScenarioAppend(ScenarioAppend(ScenarioAdd))

ScenarioFour == ScenarioAppend(ScenarioAppend(ScenarioTwo))

C17_EndToEnd ==
    (Formatted /\ adds = 0) =>
        /\ ScenarioAdd.status = DATA_MANAGER_OK
        /\ ScenarioAppend(ScenarioAdd).status = DATA_MANAGER_OK
        /\ ScenarioTwo.status = DATA_MANAGER_OK
        /\ \A ub \in UbOutcomes :
              /\ get_total_written_file_entries(ScenarioTwo.ft, 1, ub)
                     = Count(DATA_MANAGER_OK, FALSE, 2)
              /\ get_remaining_file_entries(ScenarioTwo.ft, 1, ub)
                     = Count(DATA_MANAGER_OK, FALSE, 1)
        /\ ScenarioAppend(ScenarioTwo).status = DATA_MANAGER_OK
        /\ ScenarioFour.status = FILE_ENTRY_FULL

(* C17, its case: a medium formatted anew over the data of earlier files
   takes the three entries and refuses the fourth *)
C17_Witness ==
    /\ Formatted
    /\ adds = 0
    /\ \E a \in DOMAIN mem : a >= STORAGE_START_ADDRESS /\ mem[a] # 0
    /\ get_total_written_file_entries(ScenarioTwo.ft, 1, "value").count = 2
    /\ ScenarioFour.status = FILE_ENTRY_FULL
    /\ ScenarioFour.ft = ScenarioAppend(ScenarioTwo).ft

(* C18 - checksum detection: for every descriptor the engine persisted,
   replacing any single byte of its fields other than valid by a different
   value makes is_valid_file return false; and a descriptor whose bytes are
   all zero is invalid. *)
ByteValues == {0, 1, 3, 128, 255}

NonValidBytes == 1 .. (FILE_SIZE - 1)

C18_ChecksumDetects ==
    /\ ~is_valid_file(FileOfBytes([k \in 1 .. FILE_SIZE |-> 0]))
    /\ \A i \in Occupied, k \in NonValidBytes, v \in ByteValues :
          v # FileBytes(ft[i])[k]
              => ~is_valid_file(FileOfBytes([FileBytes(ft[i]) EXCEPT ![k] = v]))

(* C19 - append, overwrite, delete_file_entries and truncate_file on a file
   change, in the file table, only that file's next_available_address and
   valid: its filename, length_bytes, file_start_address and
   file_end_address and every other slot stay as they were. *)
SameBounds(f1, f2) ==
    /\ f1.filename = f2.filename
    /\ f1.length_bytes = f2.length_bytes
    /\ f1.file_start_address = f2.file_start_address
    /\ f1.file_end_address = f2.file_end_address

TableFrame(filename, r) ==
    LET slot == get_file_by_name(ft, filename).index
    IN  /\ SameBounds(r.ft[slot], ft[slot])
        /\ \A other \in Slots \ {slot} : r.ft[other] = ft[other]

C19_TableFrame ==
    \A filename \in Filenames :
        (Formatted /\ Exists(filename)) =>
            /\ \A data_length \in DataLengths, seed \in DataSeeds :
                  /\ TableFrame(filename,
                         append_file_entry(gs, ft, mem, filename,
                                           Block(seed, data_length), data_length))
                  /\ TableFrame(filename,
                         overwrite_file_entries(gs, ft, mem, filename,
                                                Block(seed, data_length), data_length))
            /\ TableFrame(filename, delete_file_entries(gs, ft, mem, filename))
            /\ \A entries_to_remove \in TruncateCounts, ub \in UbOutcomes :
                  TableFrame(filename,
                      truncate_file(gs, ft, mem, filename, entries_to_remove, ub))

(* C20 - when every slot of the file table holds a valid descriptor and the
   size asked for fits in space_remaining, add_file returns FILE_TABLE_FULL
   and writes no descriptor, yet GlobalStats has been advanced by the size
   asked for: next_available_address higher, space_remaining lower by it. *)
RequestShapes == FileShapes \cup {<<2, 768>>}

TableIsFull == \A i \in Slots : is_valid_file(ft[i])

C20_FullTableStillReserves ==
    \A filename \in Filenames, shape \in RequestShapes :
        LET size == SatMul(shape[2], shape[1])
            ad == add_file(gs, ft, mem, filename, shape[1], shape[2], "value")
        IN  (Formatted /\ TableIsFull /\ size <= gs.space_remaining)
            => (/\ ad.status = FILE_TABLE_FULL
                /\ ad.ft = ft
                /\ ad.mem = mem
                /\ ad.gs.next_available_address = gs.next_available_address + size
                /\ ad.gs.space_remaining = gs.space_remaining - size
                /\ ad.gs.initialised = gs.initialised)

----------------------------------------------------------------------------
(* C22 - entry counts: for every descriptor a lookup finds, and whatever the
   build makes of an undefined division, get_total_written_file_entries
   returns (next_available_address - file_start_address) / length_bytes,
   get_remaining_file_entries returns
   (file_end_address + 1 - next_available_address) / length_bytes, and on a
   file add_file has just created the two add up to entries_to_store. *)

CountsOf(t, filename, ub) ==
    [written |-> get_total_written_file_entries(t, filename, ub),
     remaining |-> get_remaining_file_entries(t, filename, ub)]

CountsByCursor(file, c) ==
    /\ c.written.status = DATA_MANAGER_OK
    /\ c.remaining.status = DATA_MANAGER_OK
    /\ file.length_bytes > 0
    /\ c.written.count
           = CDiv(file.next_available_address - file.file_start_address, file.length_bytes)
    /\ c.remaining.count
           = CDiv((file.file_end_address + 1) - file.next_available_address,
                  file.length_bytes)

C22_EntryCounts ==
    /\ \A filename \in Filenames, ub \in UbOutcomes :
           Exists(filename) =>
               CountsByCursor(FileOf(filename), CountsOf(ft, filename, ub))
    /\ \A filename \in Filenames, shape \in FileShapes, ub \in UbOutcomes :
           LET r == add_file(gs, ft, mem, filename, shape[1], shape[2], "value")
               c == CountsOf(r.ft, filename, ub)
           IN  (Formatted /\ NoDescriptor(filename) /\ r.status = DATA_MANAGER_OK
                    /\ get_file_by_name(r.ft, filename).status = DATA_MANAGER_OK)
                   => /\ c.written.status = DATA_MANAGER_OK
                      /\ c.remaining.status = DATA_MANAGER_OK
                      /\ c.written.count + c.remaining.count = shape[2]

(* C25 - total_stored_files leaves in its output the number of slots holding
   a valid descriptor, whatever the output variable held before the call,
   and that number plus the one total_remaining_file_table_entries returns
   is get_max_files(). *)
C25_StoredPlusRemaining ==
    \A v \in CallerValues :
        LET stored == total_stored_files(ft, v)
            remaining == total_remaining_file_table_entries(ft)
        IN  /\ stored.status = DATA_MANAGER_OK
            /\ remaining.status = DATA_MANAGER_OK
            /\ stored.valid_files = Cardinality(Occupied)
            /\ stored.valid_files + remaining.remaining_files = get_max_files

(* C26 - read_file_entry reads only written bytes of the named file: for
   every entry_index, the negative ones included, a call that gets as far
   as the storage read (it returns none of the codes of the checks before
   it) reads a record lying wholly inside
   [file_start_address, next_available_address). *)
ReachesStorageRead(r) ==
    /\ ~r.trap
    /\ r.status \notin {FILE_INVALID_NAME, FILE_ENTRY_INVALID_INDEX,
                        FILE_ENTRY_LENGTH_MISMATCH}

C26_ReadsInsideWritten ==
    \A filename \in Filenames, entry_index \in EntryIndexes,
       data_length \in DataLengths, ub \in UbOutcomes :
        LET file == FileOf(filename)
            r == read_file_entry(gs, ft, mem, filename, entry_index, data_length, ub)
            first == file.file_start_address + (entry_index * data_length)
        IN  (Exists(filename) /\ ReachesStorageRead(r))
                => /\ first >= file.file_start_address
                   /\ first + data_length <= file.next_available_address

(* C27 - file isolation: append_file_entry, overwrite_file_entries,
   delete_file_entries and truncate_file on one file, with any argument,
   leave the descriptor of every other file as it was (and with it that
   file's written entry count) and change no byte of the other file's
   written entries. *)
CallsOn(filename) ==
    {append_file_entry(gs, ft, mem, filename, Block(seed, data_length), data_length) :
        seed \in DataSeeds, data_length \in DataLengths}
    \cup
    {overwrite_file_entries(gs, ft, mem, filename, Block(seed, data_length), data_length) :
        seed \in DataSeeds, data_length \in DataLengths}
    \cup
    {delete_file_entries(gs, ft, mem, filename)}
    \cup
    {truncate_file(gs, ft, mem, filename, entries_to_remove, ub) :
        entries_to_remove \in TruncateCounts, ub \in UbOutcomes}

WrittenBytes(file) ==
    file.file_start_address .. (file.next_available_address - 1)

C27_FileIsolation ==
    \A a \in Filenames, b \in Filenames :
        (a # b /\ Exists(a) /\ Exists(b)) =>
            \A r \in CallsOn(a) :
                /\ get_file_by_name(r.ft, b).status = DATA_MANAGER_OK
                /\ get_file_by_name(r.ft, b).file = FileOf(b)
                /\ \A address \in WrittenBytes(FileOf(b)) :
                       ReadByte(r.gs, r.ft, r.mem, address)
                           = ReadByte(gs, ft, mem, address)

(* C28 - truncate_file never lengthens a file: for every entries_to_remove,
   the negative ones included, on a file whose next_available_address lies
   in [file_start_address, file_end_address + 1] the written entry count
   after the call is at most the count before it and next_available_address
   still lies in that interval. *)
CursorInside(file) ==
    /\ file.file_start_address <= file.next_available_address
    /\ file.next_available_address <= file.file_end_address + 1

C28_TruncateNeverGrows ==
    \A filename \in Filenames, entries_to_remove \in TruncateCounts, ub \in UbOutcomes :
        LET r == truncate_file(gs, ft, mem, filename, entries_to_remove, ub)
            after == get_file_by_name(r.ft, filename)
        IN  (Exists(filename) /\ CursorInside(FileOf(filename))
                 /\ after.status = DATA_MANAGER_OK)
                => /\ written_entries_of(after.file) <= written_entries_of(FileOf(filename))
                   /\ CursorInside(after.file)

(* C30 - add_file persists no descriptor with length_bytes = 0: for every
   length_bytes and entries_to_store, the descriptor a successful add_file
   leaves in the slot it took has length_bytes > 0, and on every file a
   lookup finds get_total_written_file_entries and
   get_remaining_file_entries return without a division by zero. *)
C30_NoZeroLength ==
    /\ \A filename \in Filenames, shape \in FileShapes, ub \in UbOutcomes :
           LET r == add_file(gs, ft, mem, filename, shape[1], shape[2], ub)
               address == get_next_available_file_table_address(ft)
           IN  (Formatted /\ ~r.trap /\ r.status = DATA_MANAGER_OK /\ address # -1)
                   => r.ft[SlotOfAddress(address)].length_bytes > 0
    /\ \A filename \in Filenames :
           Exists(filename) =>
               /\ FileOf(filename).length_bytes > 0
               /\ ~get_total_written_file_entries(ft, filename, "trap").trap
               /\ ~get_remaining_file_entries(ft, filename, "trap").trap

----------------------------------------------------------------------------
(* C21 - fail fast: in every public operation, whichever of its storage
   calls is the one that fails and whatever code it fails with, the
   operation issues no storage call after it and returns that code. *)
FailsFast(r) ==
    r.port.failed => /\ r.port.late = 0
                     /\ r.status = r.port.first

FailFastTable(p) ==
    /\ FailsFast(get_global_stats_port(p, gs, ft, mem))
    /\ FailsFast(is_initialised_port(p, gs, ft, mem))
    /\ FailsFast(init_filesystem_port(p, gs, ft, mem))
    /\ FailsFast(total_remaining_file_table_entries_port(p, ft))
    /\ \A v \in CallerValues : FailsFast(total_stored_files_port(p, ft, v))
    /\ \A filename \in Filenames : FailsFast(get_file_by_name_port(p, ft, filename))
    /\ \A filename \in Filenames, shape \in FileShapes, ub \in UbOutcomes :
           FailsFast(add_file_port(p, gs, ft, mem, filename, shape[1], shape[2], ub))

FailFastCounts(p) ==
    \A filename \in Filenames :
        /\ FailsFast(get_remaining_file_entries_bytes_port(p, ft, filename))
        /\ \A ub \in UbOutcomes :
               /\ FailsFast(get_total_written_file_entries_port(p, ft, filename, ub))
               /\ FailsFast(get_remaining_file_entries_port(p, ft, filename, ub))

FailFastEntries(p) ==
    \A filename \in Filenames :
        /\ FailsFast(delete_file_entries_port(p, gs, ft, mem, filename))
        /\ \A entry_index \in EntryIndexes, data_length \in DataLengths, ub \in UbOutcomes :
               FailsFast(read_file_entry_port(p, gs, ft, mem, filename, entry_index,
                                              data_length, ub))
        /\ \A seed \in DataSeeds, data_length \in DataLengths :
               /\ FailsFast(append_file_entry_port(p, gs, ft, mem, filename,
                                                   Block(seed, data_length), data_length))
               /\ FailsFast(overwrite_file_entries_port(p, gs, ft, mem, filename,
                                                        Block(seed, data_length),
                                                        data_length))
        /\ \A entries_to_remove \in StepCounts, ub \in UbOutcomes :
               FailsFast(truncate_file_port(p, gs, ft, mem, filename, entries_to_remove,
                                            ub))

C21_FailFast ==
    \A p \in Ports : FailFastTable(p) /\ FailFastCounts(p) /\ FailFastEntries(p)

(* truncate_file on a file of two entries has made more than five storage
   calls when one fails *)
C21_Witness ==
    \E p \in Ports, filename \in Filenames :
        LET r == truncate_file_port(p, gs, ft, mem, filename, 1, "value")
        IN  /\ Exists(filename)
            /\ get_total_written_file_entries(ft, filename, "value").count > 1
            /\ r.port.failed
            /\ r.port.calls > 5
            /\ r.status = p.code
            /\ r.port.calls = p.left + 1

(* C29 - an append_file_entry that returns anything but DATA_MANAGER_OK,
   whichever check or storage call ended it, leaves the file as it was: the
   lookup still finds it, its written entry count is the same, and
   read_file_entry returns the same bytes for every index below that
   count. *)
EntriesOf(g, t, m, filename) ==
    LET file == get_file_by_name(t, filename).file
    IN  [entry_index \in 0 .. (written_entries_of(file) - 1) |->
            read_file_entry(g, t, m, filename, entry_index, file.length_bytes, "value").out]

LogicallySame(r, filename) ==
    /\ get_file_by_name(r.ft, filename).status = DATA_MANAGER_OK
    /\ written_entries_of(get_file_by_name(r.ft, filename).file)
           = written_entries_of(FileOf(filename))
    /\ EntriesOf(r.gs, r.ft, r.mem, filename) = EntriesOf(gs, ft, mem, filename)

C29_FailedAppendKeepsFile ==
    \A p \in Ports, filename \in Filenames, seed \in DataSeeds, data_length \in DataLengths :
        LET r == append_file_entry_port(p, gs, ft, mem, filename,
                                        Block(seed, data_length), data_length)
        IN  (Exists(filename) /\ r.status # DATA_MANAGER_OK)
                => LogicallySame(r, filename)

(* the data of an append to a file with an entry is on the medium and the
   write of the descriptor fails *)
C29_Witness ==
    \E p \in Ports, filename \in Filenames, seed \in DataSeeds, data_length \in DataLengths :
        LET r == append_file_entry_port(p, gs, ft, mem, filename,
                                        Block(seed, data_length), data_length)
        IN  /\ Exists(filename)
            /\ written_entries_of(FileOf(filename)) > 0
            /\ r.status \in FailureCodes
            /\ r.mem # mem
            /\ r.ft = ft

(* C23 - when add_file has written the advanced GlobalStats and the write
   of the descriptor then fails, add_file returns the code of that failure,
   the file table is as it was (a name that had no descriptor has none),
   and GlobalStats stays as the reservation left it: the call does not
   write the old counters back, no record operation changes them, a further
   add_file starts its file behind the reserved bytes, and init_filesystem
   sets them back to the whole data region. *)
FailsAtDescriptor(p, shape) ==
    LET address == get_next_available_file_table_address(ft)
    IN  /\ Formatted
        /\ add_file_space_check(requested_space(shape[2], shape[1]), gs) = DATA_MANAGER_OK
        /\ address # -1
        /\ p.left = SlotOfAddress(address) + 3

RecordCallsLeaveStats(r) ==
    \A filename \in Filenames :
        /\ delete_file_entries(r.gs, r.ft, r.mem, filename).gs = r.gs
        /\ \A seed \in DataSeeds, data_length \in DataLengths :
               /\ append_file_entry(r.gs, r.ft, r.mem, filename,
                                    Block(seed, data_length), data_length).gs = r.gs
               /\ overwrite_file_entries(r.gs, r.ft, r.mem, filename,
                                         Block(seed, data_length), data_length).gs = r.gs
        /\ \A entries_to_remove \in StepCounts :
               truncate_file(r.gs, r.ft, r.mem, filename, entries_to_remove, "value").gs
                   = r.gs

NextFileBehind(r) ==
    \A filename \in Filenames, shape \in FileShapes :
        LET again == add_file(r.gs, r.ft, r.mem, filename, shape[1], shape[2], "value")
            slot == SlotOfAddress(get_next_available_file_table_address(r.ft))
        IN  again.status = DATA_MANAGER_OK
                => again.ft[slot].file_start_address = r.gs.next_available_address

C23_LeakedReservation ==
    \A p \in Ports, filename \in Filenames, shape \in FileShapes :
        LET r == add_file_port(p, gs, ft, mem, filename, shape[1], shape[2], "value")
            reserved == add_file_stats(gs, add_file_descriptor(gs, filename, shape[1],
                                           requested_space(shape[2], shape[1])))
        IN  FailsAtDescriptor(p, shape) =>
                /\ r.status = p.code
                /\ r.ft = ft
                /\ NoDescriptor(filename)
                       => get_file_by_name(r.ft, filename).status = FILE_INVALID_NAME
                /\ r.gs = reserved
                /\ RecordCallsLeaveStats(r)
                /\ NextFileBehind(r)
                /\ init_filesystem_port(Healthy, r.gs, r.ft, r.mem).gs = FreshStats

(* a reservation of four bytes is written and the write of the descriptor
   fails *)
C23_Witness ==
    \E p \in Ports, filename \in Filenames :
        LET r == add_file_port(p, gs, ft, mem, filename, 2, 2, "value")
        IN  /\ FailsAtDescriptor(p, <<2, 2>>)
            /\ NoDescriptor(filename)
            /\ r.status \in FailureCodes
            /\ r.gs.next_available_address = gs.next_available_address + 4
            /\ r.gs.space_remaining = gs.space_remaining - 4

(* C24 - two unserialized add_file calls, one by each of two callers and
   no other since init_filesystem: when both have returned
   DATA_MANAGER_OK after reading the same GlobalStats and their descriptors
   stand in two slots, the two files start at the same address, the ranges
   of two files of non-zero size overlap, and GlobalStats is advanced by one
   of the two sizes only; when both have written the same slot, that slot
   holds the descriptor written last and the other call's descriptor is in
   no slot. *)
ReturnedOk(c) == At(c, "returned") /\ callers[c].status = DATA_MANAGER_OK

OneCallEach == adds = Cardinality(Callers)

InSlot(c) == ft[SlotOfAddress(callers[c].address)] = callers[c].file

C24_UnserializedAddFile ==
    \A c1 \in Callers, c2 \in Callers :
        (c1 # c2 /\ OneCallEach /\ ReturnedOk(c1) /\ ReturnedOk(c2)) =>
            /\ (callers[c1].stats = callers[c2].stats
                    /\ callers[c1].address # callers[c2].address)
                   => /\ InSlot(c1) /\ InSlot(c2)
                      /\ is_valid_file(callers[c1].file) /\ is_valid_file(callers[c2].file)
                      /\ callers[c1].file.file_start_address
                             = callers[c2].file.file_start_address
                      /\ (callers[c1].requested > 0 /\ callers[c2].requested > 0)
                             => ~DisjointRanges(callers[c1].file, callers[c2].file)
                      /\ gs \in {add_file_stats(callers[c].stats, callers[c].file) :
                                    c \in {c1, c2}}
            /\ (callers[c1].address = callers[c2].address
                    /\ callers[c1].file # callers[c2].file)
                   => /\ InSlot(c1) # InSlot(c2)
                      /\ Cardinality({i \in Slots :
                             ft[i] \in {callers[c1].file, callers[c2].file}}) = 1

(* both calls have returned DATA_MANAGER_OK and two valid descriptors of
   four bytes each stand on the same four bytes *)
C24_Witness ==
    \E c1 \in Callers, c2 \in Callers, i \in Slots, j \in Slots :
        /\ c1 # c2 /\ i # j
        /\ OneCallEach /\ ReturnedOk(c1) /\ ReturnedOk(c2)
        /\ ft[i] = callers[c1].file /\ ft[j] = callers[c2].file
        /\ is_valid_file(ft[i]) /\ is_valid_file(ft[j])
        /\ NonEmptyRange(ft[i]) /\ NonEmptyRange(ft[j])
        /\ ~DisjointRanges(ft[i], ft[j])

====
